---- MODULE Spec2Model ----
(***************************************************************************)
(* The practice screen (src/app/practice.tsx) and the record store it      *)
(* talks to.  One signed-in user, one device.  Every asynchronous handler  *)
(* is split at its awaits, so that handlers interleave as the event loop   *)
(* lets them.                                                              *)
(*                                                                         *)
(* Dates.  `new Date().toISOString().split('T')[0]` is the UTC calendar    *)
(* date of the device clock in the sortable form YYYY-MM-DD; a date string *)
(* is modelled by the number of that UTC day (the order of the strings is  *)
(* the order of the numbers), and the empty or unset string by EmptyDate.  *)
(* The clock is kept as the UTC day `now`; the hour of the day is an input *)
(* of each evaluation of `new Date()`.                                     *)
(***************************************************************************)
EXTENDS Integers, Sequences, FiniteSets, TLC

VARIABLES
    now,                  \* device clock: the UTC day it shows
    dbUsers,              \* collection users (records of the one user)
    dbStudySessions,      \* collection studySessions
    dbUserAnswers,        \* collection userAnswers
    user,                 \* useState user
    loading,              \* useState loading
    questions,            \* useState questions
    currentQuestionIndex, \* useState currentQuestionIndex (0-based)
    selectedAnswer,       \* useState selectedAnswer
    showExplanation,      \* useState showExplanation
    userAnswers,          \* useState userAnswers
    sessionComplete,      \* useState sessionComplete
    loads,                \* loadQuestions calls awaiting questions.list
    submits,              \* submitAnswer calls awaiting userAnswers.create
    sessions,             \* completeSession calls in flight
    nAuth,                \* auth-state callbacks delivered so far
    nCompleted,           \* completeSession calls made so far
    lastWrite,            \* log of the latest write to users (at most one entry)
    lastFailure,          \* what the catch of the latest failed backend call did
    statsAnswers,         \* stats screen: useState userAnswers
    statsQuestions,       \* stats screen: the questions calculateCategoryStats listed
    categoryStats,        \* stats screen: useState categoryStats
    statsPc               \* stats screen: position of loadUserAnswers

statsVars == <<statsAnswers, statsQuestions, categoryStats, statsPc>>

vars == <<now, dbUsers, dbStudySessions, dbUserAnswers, user, loading, questions,
          currentQuestionIndex, selectedAnswer, showExplanation, userAnswers,
          sessionComplete, loads, submits, sessions, nAuth, nCompleted, lastWrite, lastFailure, statsVars>>

dbVars == <<dbUsers, dbStudySessions, dbUserAnswers>>
screenVars == <<user, loading, questions, currentQuestionIndex, selectedAnswer,
                showExplanation, userAnswers, sessionComplete>>
countVars == <<nAuth, nCompleted>>

----------------------------------------------------------------------------
\* Bounds of the model.
MaxDay == 5
NumQuestions == 2
MaxCompletions == 2
MaxInFlight == 3
MaxSubmitsInFlight == 2
MaxAuthEvents == 1
MaxSeed == 2

\* Program constants.
QuestionLimit == 5
HoursPerDay == 24

EmptyDate == 0
NoAnswer == "null"
NoUser == "null"
TheUser == "u1"
Options == {"A", "B", "C", "D"}
\* The option labels the modelled user taps.
Choices == {"A", "B"}
\* Day numbers start three above EmptyDate, so that the day before yesterday of
\* the first day is still a date.
Days == (EmptyDate + 3)..MaxDay
\* Length in hours of the local calendar day that ends at the evaluation: 24,
\* or 23/25 when a daylight-saving change of the device's time zone falls in it.
LocalDayLengths == {23, 24, 25}

\* The question catalog: question i has correct option Choice A for odd i, B for even.
Question(i) == [id |-> i, correctAnswer |-> IF i % 2 = 1 THEN "A" ELSE "B"]
Catalog == {Question(i) : i \in 1..NumQuestions}

Min(a, b) == IF a <= b THEN a ELSE b

Range(s) == {s[i] : i \in DOMAIN s}
RemoveAt(s, i) == [j \in 1..(Len(s) - 1) |-> IF j < i THEN s[j] ELSE s[j + 1]]

----------------------------------------------------------------------------
\* Dates (JavaScript Date, as used in completeSession).

\* An instant, in hours, from the UTC day and the hour of the day.
Instant(day, hour) == day * HoursPerDay + hour

\* toISOString().split('T')[0]: the UTC day of an instant.
ISODate(t) == t \div HoursPerDay

\* const today = new Date().toISOString().split('T')[0]
Today(day, hour) == ISODate(Instant(day, hour))

\* yesterday = new Date(); yesterday.setDate(yesterday.getDate() - 1);
\* yesterdayStr = yesterday.toISOString().split('T')[0]
\* setDate works on the LOCAL calendar: the result is the instant with the same
\* local wall-clock time on the previous local day, localDayLength hours earlier;
\* toISOString then gives the UTC day of that instant.
YesterdayStr(day, hour, localDayLength) == ISODate(Instant(day, hour) - localDayLength)

----------------------------------------------------------------------------
\* The pure computations of completeSession.

\* userAnswers.filter(answer => answer.isCorrect).length +
\*   (selectedAnswer === questions[currentQuestionIndex].correctAnswer ? 1 : 0)
CorrectCount(answers, selected, question) ==
    Cardinality({i \in DOMAIN answers : answers[i].isCorrect})
      + (IF selected = question.correctAnswer THEN 1 ELSE 0)

\* const totalQuestions = questions.length
TotalQuestions(qs) == Len(qs)

MathMax(a, b) == IF a >= b THEN a ELSE b

\* NewStreak with the "already studied today" branch treated like yesterday
NewStreak_SameDayIncrements(existingUser, today, yesterdayStr) ==
    IF existingUser.lastStudyDate = today \/ existingUser.lastStudyDate = yesterdayStr
      THEN existingUser.currentStreak + 1
    ELSE IF existingUser.lastStudyDate = EmptyDate
            \/ existingUser.lastStudyDate < yesterdayStr
      THEN 1
    ELSE existingUser.currentStreak

\* NewStreak that leaves no streak after a missed day
NewStreak_ResetsToZero(existingUser, today, yesterdayStr) ==
    IF existingUser.lastStudyDate = today
      THEN existingUser.currentStreak
    ELSE IF existingUser.lastStudyDate = yesterdayStr
      THEN existingUser.currentStreak + 1
    ELSE IF existingUser.lastStudyDate = EmptyDate
            \/ existingUser.lastStudyDate < yesterdayStr
      THEN 0
    ELSE existingUser.currentStreak

\* let newStreak = existingUser.currentStreak; if / else if / else if
NewStreak(existingUser, today, yesterdayStr) ==
    IF existingUser.lastStudyDate = today
      THEN existingUser.currentStreak
    ELSE IF existingUser.lastStudyDate = yesterdayStr
      THEN existingUser.currentStreak + 1
    ELSE IF existingUser.lastStudyDate = EmptyDate
            \/ existingUser.lastStudyDate < yesterdayStr
      THEN 1
    ELSE existingUser.currentStreak

\* NewLongestStreak that never raises the stored longest streak
NewLongestStreak_KeepsPrevious(existingUser, newStreak) ==
    existingUser.longestStreak

\* const newLongestStreak = Math.max(existingUser.longestStreak, newStreak)
NewLongestStreak(existingUser, newStreak) ==
    MathMax(existingUser.longestStreak, newStreak)

\* UpdateFields that stores the session's counts instead of adding them
UpdateFields_OverwritesTotals(existingUser, today, yesterdayStr, totalQuestions, correctCount) ==
    [currentStreak |-> NewStreak(existingUser, today, yesterdayStr),
     longestStreak |->
         NewLongestStreak(existingUser, NewStreak(existingUser, today, yesterdayStr)),
     lastStudyDate |-> today,
     totalQuestionsAnswered |-> totalQuestions,
     correctAnswers |-> correctCount]

\* The fields handed to blink.db.users.update
UpdateFields(existingUser, today, yesterdayStr, totalQuestions, correctCount) ==
    [currentStreak |-> NewStreak(existingUser, today, yesterdayStr),
     longestStreak |->
         NewLongestStreak(existingUser, NewStreak(existingUser, today, yesterdayStr)),
     lastStudyDate |-> today,
     totalQuestionsAnswered |-> existingUser.totalQuestionsAnswered + totalQuestions,
     correctAnswers |-> existingUser.correctAnswers + correctCount]

\* CreateFields that starts a first-time user without a streak
CreateFields_StartsAtZero(today, totalQuestions, correctCount) ==
    [currentStreak |-> 0,
     longestStreak |-> 0,
     lastStudyDate |-> today,
     totalQuestionsAnswered |-> totalQuestions,
     correctAnswers |-> correctCount]

\* The record handed to blink.db.users.create
CreateFields(today, totalQuestions, correctCount) ==
    [currentStreak |-> 1,
     longestStreak |-> 1,
     lastStudyDate |-> today,
     totalQuestionsAnswered |-> totalQuestions,
     correctAnswers |-> correctCount]

\* The record handed to blink.db.studySessions.create
SessionFields(today, totalQuestions, correctCount) ==
    [sessionDate |-> today,
     questionsAnswered |-> totalQuestions,
     correctAnswers |-> correctCount]

----------------------------------------------------------------------------
\* JavaScript numbers, as far as Math.round((correct / total) * 100) uses them:
\* positive IEEE 754 doubles.  The 53 bits of the significand are kept as the
\* leading 1 followed by NumDigits digits of DigitBits bits each (1 + 4 * 13),
\* most significant first, with the number exp of significand bits that stand
\* before the binary point: the value is 0.significand * 2^exp.
DigitBits == 13
NumDigits == 4
Base == 2 ^ DigitBits

\* sig + 1 in the last place; carry is 1 when the significand overflowed.
Increment(sig) ==
    LET open == {i \in DOMAIN sig : i > 1 /\ sig[i] < Base - 1}
    IN  IF open = {}
          THEN [sig |-> [i \in DOMAIN sig |-> IF i = 1 THEN 1 ELSE 0], carry |-> 1]
          ELSE LET last == CHOOSE i \in open : \A j \in open : j <= i
               IN  [sig |-> [i \in DOMAIN sig |->
                               IF i < last THEN sig[i]
                               ELSE IF i = last THEN sig[i] + 1 ELSE 0],
                    carry |-> 0]

\* Round to nearest, ties to even: `up` says the discarded part is more than
\* half a unit in the last place, `tie` that it is exactly half.
RoundToEven(sig, exp, up, tie) ==
    IF up \/ (tie /\ sig[Len(sig)] % 2 = 1)
      THEN LET inc == Increment(sig)
           IN  [sig |-> inc.sig, exp |-> exp + inc.carry]
      ELSE [sig |-> sig, exp |-> exp]

\* The least k with c * 2^k >= t, and c * 2^k.
RECURSIVE ShiftCount(_, _)
ShiftCount(c, t) == IF c >= t THEN 0 ELSE 1 + ShiftCount(2 * c, t)
RECURSIVE Shifted(_, _)
Shifted(c, t) == IF c >= t THEN c ELSE Shifted(2 * c, t)

\* The remainder of the long division r / t after i further digits.
RECURSIVE Remainder(_, _, _)
Remainder(r, t, i) == IF i = 0 THEN r ELSE (Remainder(r, t, i - 1) * Base) % t

\* The least k with c < 2 * t * 2^k.
RECURSIVE HalvingCount(_, _)
HalvingCount(c, t) == IF c < 2 * t THEN 0 ELSE 1 + HalvingCount(c, 2 * t)

\* correct / total for correct, total >= 1: the double nearest to the quotient
Divide(correct, total) ==
    LET den == total * (2 ^ HalvingCount(correct, total))
        r == Shifted(correct, den) - den
        sig == [i \in 1..(NumDigits + 1) |->
                  IF i = 1 THEN 1 ELSE (Remainder(r, den, i - 2) * Base) \div den]
        rest == Remainder(r, den, NumDigits)
    IN  RoundToEven(sig, 1 - ShiftCount(correct, den) + HalvingCount(correct, total),
                    2 * rest > den, 2 * rest = den)

\* The carry out of digit i (and the digits behind it) of sig * m.
RECURSIVE Carry(_, _, _)
Carry(sig, m, i) ==
    IF i > Len(sig) THEN 0 ELSE (sig[i] * m + Carry(sig, m, i + 1)) \div Base

\* The number of bits of n >= 1.
RECURSIVE BitLength(_)
BitLength(n) == IF n <= 1 THEN 1 ELSE 1 + BitLength(n \div 2)

\* x * m for a small integer m: the double nearest to the product
Multiply(x, m) ==
    LET top == x.sig[1] * m + Carry(x.sig, m, 2)
        digit == [i \in DOMAIN x.sig |->
                    IF i = 1 THEN top ELSE (x.sig[i] * m + Carry(x.sig, m, i + 1)) % Base]
        shift == BitLength(top) - 1
        sig == [i \in DOMAIN x.sig |->
                  IF i = 1 THEN top \div (2 ^ shift)
                  ELSE ((digit[i - 1] % (2 ^ shift)) * Base + digit[i]) \div (2 ^ shift)]
        lost == digit[Len(digit)] % (2 ^ shift)
    IN  RoundToEven(sig, x.exp + shift, 2 * lost > 2 ^ shift, shift > 0 /\ 2 * lost = 2 ^ shift)

\* Math.round(x) for x below 2^DigitBits: the nearest integer, a half rounding up
MathRound(x) ==
    IF x.exp < 0 THEN 0
    ELSE LET leading == x.sig[1] * Base + x.sig[2]
         IN  leading \div (2 ^ (DigitBits + 1 - x.exp))
               + ((leading \div (2 ^ (DigitBits - x.exp))) % 2)

\* Accuracy that computes correct * 100 / total in exact integers
Accuracy_ExactHalfUp(correct, total) ==
    IF total > 0 THEN (2 * 100 * correct + total) \div (2 * total) ELSE 0

\* data.total > 0 ? Math.round((data.correct / data.total) * 100) : 0
\* (the quotient is bound as a value before it is multiplied)
Accuracy(correct, total) ==
    IF total > 0
      THEN IF correct = 0 THEN 0
           ELSE CHOOSE rounded \in {MathRound(Multiply(quotient, 100)) :
                                      quotient \in {Divide(correct, total)}} : TRUE
      ELSE 0

----------------------------------------------------------------------------
\* The record store.

\* users.list({ where: { id }, limit: 1 })
UsersList(db) == IF Len(db) > 0 THEN <<db[1]>> ELSE <<>>

\* users.update(id, fields): the fields are merged into the user's records
UsersUpdate(db, fields) == [i \in DOMAIN db |-> fields]

\* Create that overwrites the latest record of the collection
Create_ReplacesLatest(db, record) ==
    IF db = <<>> THEN <<record>> ELSE [db EXCEPT ![Len(db)] = record]

\* users.create(record), studySessions.create, userAnswers.create: append
Create(db, record) == Append(db, record)

\* questions.list({ orderBy, limit: 5 }): any list of distinct catalog questions
\* up to the limit, in any order ([...result].sort(() => Math.random() - 0.5))
QuestionLists ==
    LET k == Min(QuestionLimit, NumQuestions)
    IN  {s \in UNION {[1..n -> Catalog] : n \in 0..k} :
            \A i, j \in DOMAIN s : i # j => s[i] # s[j]}

----------------------------------------------------------------------------
\* What the catch block of a screen action did with a failed backend call:
\* console.error (logged) and Alert.alert (alerted).
Caught(action, logged, alerted) ==
    <<[action |-> action, logged |-> logged, alerted |-> alerted]>>

----------------------------------------------------------------------------
\* What the screen renders (the early returns of the component body).
LoadingView == loading
EmptyView == ~loading /\ Len(questions) = 0
CompleteView == ~loading /\ Len(questions) > 0 /\ sessionComplete
QuestionView ==
    /\ ~loading /\ Len(questions) > 0 /\ ~sessionComplete
    /\ currentQuestionIndex < Len(questions)
CurrentQuestion == questions[currentQuestionIndex + 1]

\* The Session Complete view: userAnswers.filter(a => a.isCorrect).length and
\* Math.round((correctCount / totalQuestions) * 100); a division by zero gives
\* NaN or Infinity, which Math.round returns unchanged.
DisplayedCorrect(answers) == Cardinality({i \in DOMAIN answers : answers[i].isCorrect})
Percentage(correctCount, totalQuestions) ==
    IF totalQuestions = 0
      THEN IF correctCount = 0 THEN "NaN" ELSE "Infinity"
      ELSE IF correctCount = 0 THEN 0
           ELSE MathRound(Multiply(Divide(correctCount, totalQuestions), 100))

\* The stats screen after construction: useState([]) for userAnswers and
\* categoryStats, no loader running.
StatsInit ==
    /\ statsAnswers = <<>>
    /\ statsQuestions = <<>>
    /\ categoryStats = <<>>
    /\ statsPc = "idle"

Init ==
    /\ now \in Days
    /\ dbUsers = <<>>
    /\ dbStudySessions = <<>>
    /\ dbUserAnswers = <<>>
    /\ user = NoUser
    /\ loading = TRUE
    /\ questions = <<>>
    /\ currentQuestionIndex = 0
    /\ selectedAnswer = NoAnswer
    /\ showExplanation = FALSE
    /\ userAnswers = <<>>
    /\ sessionComplete = FALSE
    /\ loads = 0
    /\ submits = <<>>
    /\ sessions = {}
    /\ nAuth = 0
    /\ nCompleted = 0
    /\ lastWrite = <<>>
    /\ lastFailure = <<>>
    /\ StatsInit

----------------------------------------------------------------------------
\* The device clock: time passes, or the clock is set back.
ClockAdvance ==
    /\ now < MaxDay
    /\ now' = now + 1
    /\ UNCHANGED <<dbVars, screenVars, loads, submits, sessions, countVars, lastWrite, lastFailure, statsVars>>

ClockSetBack ==
    /\ \E d \in Days : d < now /\ now' = d
    /\ UNCHANGED <<dbVars, screenVars, loads, submits, sessions, countVars, lastWrite, lastFailure, statsVars>>

----------------------------------------------------------------------------
\* loadQuestions, up to its await: setLoading(true), questions.list issued
StartLoad ==
    /\ loading' = TRUE
    /\ loads' = loads + 1

\* blink.auth.onAuthStateChanged callback delivering the signed-in state
\* { user, isLoading: false }: setUser, await loadQuestions(), setLoading(false).
\* (The states without a user only repeat setLoading(true) while the screen
\* still shows its initial loading view.)
AuthStateChanged ==
    /\ nAuth' = nAuth + 1
    /\ user' = TheUser
    /\ StartLoad
    /\ UNCHANGED <<now, dbVars, questions, currentQuestionIndex, selectedAnswer,
                   showExplanation, userAnswers, sessionComplete, submits, sessions,
                   nCompleted, lastWrite, lastFailure, statsVars>>

\* loadQuestions that stores whatever questions.list returned
LoadQuestionsReturn_SetsEmpty(result) ==
    /\ loads > 0
    /\ questions' = result
    /\ loading' = FALSE
    /\ loads' = loads - 1
    /\ UNCHANGED <<now, dbVars, user, currentQuestionIndex, selectedAnswer,
                   showExplanation, userAnswers, sessionComplete, submits, sessions,
                   countVars, lastWrite, lastFailure, statsVars>>

\* loadQuestions after its await: questions.list returned `result`
\* (an empty result only raises an alert), finally setLoading(false)
LoadQuestionsReturn(result) ==
    /\ loads > 0
    /\ questions' = IF Len(result) > 0 THEN result ELSE questions
    /\ loading' = FALSE
    /\ loads' = loads - 1
    /\ UNCHANGED <<now, dbVars, user, currentQuestionIndex, selectedAnswer,
                   showExplanation, userAnswers, sessionComplete, submits, sessions,
                   countVars, lastWrite, lastFailure, statsVars>>

\* loadQuestions after its await: questions.list failed (catch: alert; finally)
LoadQuestionsFail ==
    /\ loads > 0
    /\ loading' = FALSE
    /\ loads' = loads - 1
    /\ lastFailure' = Caught("loadQuestions", TRUE, TRUE)
    /\ UNCHANGED <<now, dbVars, user, questions, currentQuestionIndex, selectedAnswer,
                   showExplanation, userAnswers, sessionComplete, submits, sessions,
                   countVars, lastWrite, statsVars>>

\* The Retry control of the "No questions available" view
Retry ==
    /\ EmptyView
    /\ StartLoad
    /\ UNCHANGED <<now, dbVars, user, questions, currentQuestionIndex, selectedAnswer,
                   showExplanation, userAnswers, sessionComplete, submits, sessions,
                   countVars, lastWrite, lastFailure, statsVars>>

----------------------------------------------------------------------------
handleAnswerSelect(answer) ==
    /\ QuestionView
    /\ ~showExplanation
    /\ selectedAnswer # answer
    /\ selectedAnswer' = answer
    /\ UNCHANGED <<now, dbVars, user, loading, questions, currentQuestionIndex,
                   showExplanation, userAnswers, sessionComplete, loads, submits,
                   sessions, countVars, lastWrite, lastFailure, statsVars>>

\* submitAnswer up to its await: the answer is appended to userAnswers and
\* userAnswers.create is issued
submitAnswer ==
    /\ QuestionView
    /\ ~showExplanation
    /\ selectedAnswer # NoAnswer
    /\ user # NoUser
    /\ Len(submits) < MaxSubmitsInFlight
    /\ LET userAnswer ==
             [questionId |-> CurrentQuestion.id,
              selectedAnswer |-> selectedAnswer,
              isCorrect |-> (selectedAnswer = CurrentQuestion.correctAnswer)]
       IN  /\ userAnswers' = Append(userAnswers, userAnswer)
           /\ submits' = Append(submits, userAnswer)
    /\ UNCHANGED <<now, dbVars, user, loading, questions, currentQuestionIndex,
                   selectedAnswer, showExplanation, sessionComplete, loads, sessions,
                   countVars, lastWrite, lastFailure, statsVars>>

\* submitAnswer after its await: the create succeeded or failed (catch:
\* console.error only), then setShowExplanation(true)
SubmitAnswerReturn(i, ok) ==
    /\ i \in DOMAIN submits
    /\ dbUserAnswers' = IF ok THEN Create(dbUserAnswers, submits[i]) ELSE dbUserAnswers
    /\ submits' = RemoveAt(submits, i)
    /\ showExplanation' = TRUE
    /\ lastFailure' = IF ok THEN lastFailure ELSE Caught("submitAnswer", TRUE, FALSE)
    /\ UNCHANGED <<now, dbUsers, dbStudySessions, user, loading, questions,
                   currentQuestionIndex, selectedAnswer, userAnswers, sessionComplete,
                   loads, sessions, countVars, lastWrite, statsVars>>

----------------------------------------------------------------------------
\* completeSession up to its first await: the tally and today are computed and
\* users.list is issued.  `answered` keeps the answers the tally was taken from.
completeSession(hour) ==
    /\ user # NoUser
    /\ Cardinality(sessions) < MaxInFlight
    /\ nCompleted' = nCompleted + 1
    /\ sessions' = sessions \cup
         {[id |-> nCompleted + 1,
           pc |-> "list",
           correctCount |-> CorrectCount(userAnswers, selectedAnswer, CurrentQuestion),
           totalQuestions |-> TotalQuestions(questions),
           today |-> Today(now, hour),
           answered |-> userAnswers,
           existingUsers |-> <<>>,
           yesterdayStr |-> EmptyDate,
           fields |-> <<>>]}
    /\ UNCHANGED <<now, dbVars, screenVars, loads, submits, nAuth, lastWrite, lastFailure, statsVars>>

\* nextQuestion that still advances at the last question
nextQuestion_AdvancesPastEnd(hour) ==
    /\ QuestionView
    /\ showExplanation
    /\ IF currentQuestionIndex < Len(questions)
         THEN /\ currentQuestionIndex' = currentQuestionIndex + 1
              /\ selectedAnswer' = NoAnswer
              /\ showExplanation' = FALSE
              /\ UNCHANGED <<now, dbVars, user, loading, questions, userAnswers,
                             sessionComplete, loads, submits, sessions, countVars, lastWrite, lastFailure, statsVars>>
         ELSE completeSession(hour)

\* nextQuestion: the Next Question / Complete Session control
nextQuestion(hour) ==
    /\ QuestionView
    /\ showExplanation
    /\ IF currentQuestionIndex < Len(questions) - 1
         THEN /\ currentQuestionIndex' = currentQuestionIndex + 1
              /\ selectedAnswer' = NoAnswer
              /\ showExplanation' = FALSE
              /\ UNCHANGED <<now, dbVars, user, loading, questions, userAnswers,
                             sessionComplete, loads, submits, sessions, countVars, lastWrite, lastFailure, statsVars>>
         ELSE completeSession(hour)

\* completeSession after users.list returned: the streak is computed and the
\* users write (update or create) is issued
CompleteSessionRead(h, hour, localDayLength) ==
    /\ h \in sessions
    /\ h.pc = "list"
    /\ LET existingUsers == UsersList(dbUsers)
           yesterdayStr == YesterdayStr(now, hour, localDayLength)
           fields ==
             IF Len(existingUsers) > 0
               THEN UpdateFields(existingUsers[1], h.today, yesterdayStr,
                                 h.totalQuestions, h.correctCount)
               ELSE CreateFields(h.today, h.totalQuestions, h.correctCount)
       IN  sessions' = (sessions \ {h}) \cup
             {[h EXCEPT !.pc = "write",
                        !.existingUsers = existingUsers,
                        !.yesterdayStr = yesterdayStr,
                        !.fields = <<fields>>]}
    /\ UNCHANGED <<now, dbVars, screenVars, loads, submits, countVars, lastWrite, lastFailure, statsVars>>

\* CompleteSessionWrite that does not await the users write: the study session
\* is appended together with it
CompleteSessionWrite_AppendsAtOnce(h) ==
    /\ h \in sessions
    /\ h.pc = "write"
    /\ dbUsers' = IF Len(h.existingUsers) > 0
                    THEN UsersUpdate(dbUsers, h.fields[1])
                    ELSE Create(dbUsers, h.fields[1])
    /\ dbStudySessions' =
         Create(dbStudySessions, SessionFields(h.today, h.totalQuestions, h.correctCount))
    /\ lastWrite' = <<[existingUsers |-> h.existingUsers,
                       written |-> h.fields[1],
                       today |-> h.today,
                       totalQuestions |-> h.totalQuestions,
                       correctCount |-> h.correctCount]>>
    /\ sessions' = (sessions \ {h}) \cup {[h EXCEPT !.pc = "session"]}
    /\ UNCHANGED <<now, dbUserAnswers, screenVars, loads, submits, countVars, lastFailure, statsVars>>

\* CompleteSessionWrite whose update adds the session's counts to the totals
\* stored at the time of the write
CompleteSessionWrite_AddsToStored(h) ==
    /\ h \in sessions
    /\ h.pc = "write"
    /\ dbUsers' = IF Len(h.existingUsers) > 0
                    THEN [i \in DOMAIN dbUsers |->
                            [h.fields[1] EXCEPT
                               !.totalQuestionsAnswered =
                                   dbUsers[i].totalQuestionsAnswered + h.totalQuestions,
                               !.correctAnswers =
                                   dbUsers[i].correctAnswers + h.correctCount]]
                    ELSE Create(dbUsers, h.fields[1])
    /\ lastWrite' = <<[existingUsers |-> h.existingUsers,
                       written |-> h.fields[1],
                       today |-> h.today,
                       totalQuestions |-> h.totalQuestions,
                       correctCount |-> h.correctCount]>>
    /\ sessions' = (sessions \ {h}) \cup {[h EXCEPT !.pc = "session"]}
    /\ UNCHANGED <<now, dbStudySessions, dbUserAnswers, screenVars, loads, submits,
                   countVars, lastFailure, statsVars>>

\* The users write is applied by the store; studySessions.create is issued
CompleteSessionWrite(h) ==
    /\ h \in sessions
    /\ h.pc = "write"
    /\ dbUsers' = IF Len(h.existingUsers) > 0
                    THEN UsersUpdate(dbUsers, h.fields[1])
                    ELSE Create(dbUsers, h.fields[1])
    /\ lastWrite' = <<[existingUsers |-> h.existingUsers,
                       written |-> h.fields[1],
                       today |-> h.today,
                       totalQuestions |-> h.totalQuestions,
                       correctCount |-> h.correctCount]>>
    /\ sessions' = (sessions \ {h}) \cup {[h EXCEPT !.pc = "session"]}
    /\ UNCHANGED <<now, dbStudySessions, dbUserAnswers, screenVars, loads, submits,
                   countVars, lastFailure, statsVars>>

\* CompleteSessionAppend that also stores the run's answers, at completion time
CompleteSessionAppend_StoresAnswers(h) ==
    /\ h \in sessions
    /\ h.pc = "session"
    /\ dbStudySessions' =
         Create(dbStudySessions, SessionFields(h.today, h.totalQuestions, h.correctCount))
    /\ dbUserAnswers' = dbUserAnswers \o h.answered
    /\ sessionComplete' = TRUE
    /\ sessions' = sessions \ {h}
    /\ UNCHANGED <<now, dbUsers, user, loading, questions,
                   currentQuestionIndex, selectedAnswer, showExplanation, userAnswers,
                   loads, submits, countVars, lastWrite, lastFailure, statsVars>>

\* The study session record is appended; setSessionComplete(true)
CompleteSessionAppend(h) ==
    /\ h \in sessions
    /\ h.pc = "session"
    /\ dbStudySessions' =
         Create(dbStudySessions, SessionFields(h.today, h.totalQuestions, h.correctCount))
    /\ sessionComplete' = TRUE
    /\ sessions' = sessions \ {h}
    /\ UNCHANGED <<now, dbUsers, dbUserAnswers, user, loading, questions,
                   currentQuestionIndex, selectedAnswer, showExplanation, userAnswers,
                   loads, submits, countVars, lastWrite, lastFailure, statsVars>>

\* CompleteSessionFail that undoes the users write when the append fails
CompleteSessionFail_RollsBack(h) ==
    /\ h \in sessions
    /\ sessions' = sessions \ {h}
    /\ lastFailure' = Caught("completeSession", TRUE, TRUE)
    /\ dbUsers' = IF h.pc = "session" THEN h.existingUsers ELSE dbUsers
    /\ UNCHANGED <<now, dbStudySessions, dbUserAnswers, screenVars, loads, submits,
                   countVars, lastWrite, statsVars>>

\* The awaited backend call of h fails: catch, console.error, Alert.alert
CompleteSessionFail(h) ==
    /\ h \in sessions
    /\ sessions' = sessions \ {h}
    /\ lastFailure' = Caught("completeSession", TRUE, TRUE)
    /\ UNCHANGED <<now, dbVars, screenVars, loads, submits, countVars, lastWrite, statsVars>>

\* restartPractice: the Practice Again control of the Session Complete view
restartPractice ==
    /\ CompleteView
    /\ currentQuestionIndex' = 0
    /\ selectedAnswer' = NoAnswer
    /\ showExplanation' = FALSE
    /\ userAnswers' = <<>>
    /\ sessionComplete' = FALSE
    /\ StartLoad
    /\ UNCHANGED <<now, dbVars, user, questions, submits, sessions, nAuth, nCompleted, lastWrite, lastFailure, statsVars>>

\* The hours of the day at which the modelled clock is read: the first, the
\* last and one between.
Hours == {0, HoursPerDay \div 2, HoursPerDay - 1}

\* One practice screen from its construction, the user pressing a control only
\* when no handler of the same kind is still awaiting the backend, and starting
\* a further run only while the model lets it complete.
Next ==
    \/ ClockAdvance
    \/ ClockSetBack
    \/ AuthStateChanged /\ nAuth < MaxAuthEvents
    \/ \E r \in QuestionLists : LoadQuestionsReturn(r)
    \/ LoadQuestionsFail
    \/ Retry
    \/ \E a \in Choices : handleAnswerSelect(a)
    \/ submitAnswer /\ submits = <<>>
    \/ \E i \in DOMAIN submits, ok \in BOOLEAN : SubmitAnswerReturn(i, ok)
    \/ \E hour \in Hours :
         nextQuestion(hour) /\ sessions = {} /\ nCompleted < MaxCompletions
    \/ \E h \in sessions, hour \in Hours, len \in LocalDayLengths :
         CompleteSessionRead(h, hour, len)
    \/ \E h \in sessions : CompleteSessionWrite(h)
    \/ \E h \in sessions : CompleteSessionAppend(h)
    \/ \E h \in sessions : CompleteSessionFail(h)
    \/ restartPractice /\ nCompleted < MaxCompletions

Spec == Init /\ [][Next]_vars

----------------------------------------------------------------------------
\* The same screen when no backend call fails and the clock is never set back.
NextSeq ==
    \/ ClockAdvance
    \/ AuthStateChanged /\ nAuth < MaxAuthEvents
    \/ \E r \in QuestionLists : LoadQuestionsReturn(r)
    \/ Retry
    \/ \E a \in Choices : handleAnswerSelect(a)
    \/ submitAnswer /\ submits = <<>>
    \/ \E i \in DOMAIN submits : SubmitAnswerReturn(i, TRUE)
    \/ \E hour \in Hours :
         nextQuestion(hour) /\ sessions = {} /\ nCompleted < MaxCompletions
    \/ \E h \in sessions, hour \in Hours, len \in LocalDayLengths :
         CompleteSessionRead(h, hour, len)
    \/ \E h \in sessions : CompleteSessionWrite(h)
    \/ \E h \in sessions : CompleteSessionAppend(h)
    \/ restartPractice /\ nCompleted < MaxCompletions

SpecSeq == Init /\ [][NextSeq]_vars

----------------------------------------------------------------------------
\* completeSession on every stored record.  The store is owned by the backend:
\* the user's record may be absent or hold any values (an unset lastStudyDate,
\* a date ahead of the device clock, a longestStreak below currentStreak).  The
\* screen is at the last question of a run, answered, its explanation shown.
SeedRecords ==
    {r \in [currentStreak : 0..MaxSeed,
            longestStreak : 0..MaxSeed,
            lastStudyDate : {EmptyDate} \cup Days,
            totalQuestionsAnswered : {MaxSeed},
            correctAnswers : {0, MaxSeed}] :
        r.correctAnswers <= r.totalQuestionsAnswered}

AnswersOf(qs, sel) ==
    [i \in DOMAIN qs |->
        [questionId |-> qs[i].id,
         selectedAnswer |-> sel[i],
         isCorrect |-> (sel[i] = qs[i].correctAnswer)]]

InitSeeded ==
    /\ now \in Days
    /\ dbUsers \in {<<>>} \cup {<<r>> : r \in SeedRecords}
    /\ dbStudySessions = <<>>
    /\ \E n \in 1..Min(QuestionLimit, NumQuestions) : questions = [i \in 1..n |-> Question(i)]
    /\ \E sel \in [DOMAIN questions -> Choices] :
         /\ userAnswers = AnswersOf(questions, sel)
         /\ dbUserAnswers = userAnswers
         /\ selectedAnswer = sel[Len(questions)]
    /\ currentQuestionIndex = Len(questions) - 1
    /\ user = TheUser
    /\ loading = FALSE
    /\ showExplanation = TRUE
    /\ sessionComplete = FALSE
    /\ loads = 0
    /\ submits = <<>>
    /\ sessions = {}
    /\ nAuth = 1
    /\ nCompleted = 0
    /\ lastWrite = <<>>
    /\ lastFailure = <<>>
    /\ StatsInit

\* The Complete Session control may be pressed again after a completeSession
\* failed.
NextSeeded ==
    \/ ClockAdvance
    \/ \E hour \in Hours :
         nextQuestion(hour) /\ sessions = {} /\ nCompleted < MaxCompletions
    \/ \E h \in sessions, hour \in Hours, len \in LocalDayLengths :
         CompleteSessionRead(h, hour, len)
    \/ \E h \in sessions : CompleteSessionWrite(h)
    \/ \E h \in sessions : CompleteSessionAppend(h)
    \/ \E h \in sessions : CompleteSessionFail(h)

SpecSeeded == InitSeeded /\ [][NextSeeded]_vars

----------------------------------------------------------------------------
\* Overlapping completeSession calls.  The Complete Session control stays
\* pressable until setSessionComplete(true): every further press at the last
\* question starts another completeSession while the earlier ones still await
\* the backend, and the store serves the calls of the handlers in any order.
\* The clock is read at noon of an ordinary day.
MaxPresses == 3
Noon == HoursPerDay \div 2

NextOverlap ==
    \/ nextQuestion(Noon) /\ nCompleted < MaxPresses
    \/ \E h \in sessions : CompleteSessionRead(h, Noon, HoursPerDay)
    \/ \E h \in sessions : CompleteSessionWrite(h)
    \/ \E h \in sessions : CompleteSessionAppend(h)
    \/ \E h \in sessions : CompleteSessionFail(h)

\* The record of a user who is absent, or who last studied today or the day
\* before and whose longest streak is the current one.
InitOverlap ==
    /\ InitSeeded
    /\ now = MaxDay
    /\ \A i \in DOMAIN dbUsers :
         /\ dbUsers[i].lastStudyDate \in {now - 1, now}
         /\ dbUsers[i].longestStreak = dbUsers[i].currentStreak

SpecOverlap == InitOverlap /\ [][NextOverlap]_vars

----------------------------------------------------------------------------
\* One practice run of a first-time user from its first question to the
\* Session Complete view, each control pressed only when no handler of its
\* kind is awaiting the backend.
InitRun ==
    /\ now = MaxDay
    /\ dbUsers = <<>>
    /\ dbStudySessions = <<>>
    /\ dbUserAnswers = <<>>
    /\ user = TheUser
    /\ loading = FALSE
    /\ \E n \in 1..Min(QuestionLimit, NumQuestions) : questions = [i \in 1..n |-> Question(i)]
    /\ currentQuestionIndex = 0
    /\ selectedAnswer = NoAnswer
    /\ showExplanation = FALSE
    /\ userAnswers = <<>>
    /\ sessionComplete = FALSE
    /\ loads = 0
    /\ submits = <<>>
    /\ sessions = {}
    /\ nAuth = 1
    /\ nCompleted = 0
    /\ lastWrite = <<>>
    /\ lastFailure = <<>>
    /\ StatsInit

NextRun ==
    \/ \E a \in Choices : handleAnswerSelect(a)
    \/ submitAnswer /\ submits = <<>>
    \/ \E i \in DOMAIN submits, ok \in BOOLEAN : SubmitAnswerReturn(i, ok)
    \/ nextQuestion(Noon) /\ sessions = {} /\ nCompleted < MaxCompletions
    \/ \E h \in sessions : CompleteSessionRead(h, Noon, HoursPerDay)
    \/ \E h \in sessions : CompleteSessionWrite(h)
    \/ \E h \in sessions : CompleteSessionAppend(h)
    \/ \E h \in sessions : CompleteSessionFail(h)

SpecRun == InitRun /\ [][NextRun]_vars

\* The same run with Submit Answer pressed again.  The control stays pressable
\* until setShowExplanation(true), which follows the await of
\* userAnswers.create: every further press meanwhile starts another
\* submitAnswer.
NextResubmit ==
    \/ \E a \in Choices : handleAnswerSelect(a)
    \/ submitAnswer
    \/ \E i \in DOMAIN submits, ok \in BOOLEAN : SubmitAnswerReturn(i, ok)
    \/ nextQuestion(Noon) /\ sessions = {} /\ nCompleted < MaxCompletions
    \/ \E h \in sessions : CompleteSessionRead(h, Noon, HoursPerDay)
    \/ \E h \in sessions : CompleteSessionWrite(h)
    \/ \E h \in sessions : CompleteSessionAppend(h)
    \/ \E h \in sessions : CompleteSessionFail(h)

SpecResubmit == InitRun /\ [][NextResubmit]_vars

----------------------------------------------------------------------------
\* The practice screen from its construction with question reloads: the
\* auth-state callback fires up to MaxReloads times, each time re-running
\* loadQuestions, which may return any list, an empty one or fail; one run is
\* completed and restarted.  All other backend calls succeed.
MaxReloads == 2

\* The lists questions.list returns here: the first n questions of the catalog.
QuestionPrefixes ==
    {[i \in 1..n |-> Question(i)] : n \in 0..Min(QuestionLimit, NumQuestions)}

InitReload == Init /\ now = MaxDay

NextReload ==
    \/ AuthStateChanged /\ nAuth < MaxReloads
    \/ \E result \in QuestionPrefixes : LoadQuestionsReturn(result)
    \/ LoadQuestionsFail
    \/ Retry
    \/ \E a \in Choices : handleAnswerSelect(a)
    \/ submitAnswer /\ submits = <<>>
    \/ \E i \in DOMAIN submits : SubmitAnswerReturn(i, TRUE)
    \/ nextQuestion(Noon) /\ (currentQuestionIndex < Len(questions) - 1 \/ nCompleted = 0)
    \/ \E h \in sessions : CompleteSessionRead(h, Noon, HoursPerDay)
    \/ \E h \in sessions : CompleteSessionWrite(h)
    \/ \E h \in sessions : CompleteSessionAppend(h)
    \/ restartPractice

SpecReload == InitReload /\ [][NextReload]_vars

----------------------------------------------------------------------------
\* A first-time user (no stored record) at the last question of a run, on any
\* day: the run is completed, and completed again after a failure, while the
\* clock advances or is set back between and during the attempts.
InitFresh == InitSeeded /\ dbUsers = <<>>

NextFresh ==
    \/ ClockAdvance
    \/ ClockSetBack
    \/ \E hour \in Hours :
         nextQuestion(hour) /\ sessions = {} /\ nCompleted < MaxCompletions
    \/ \E h \in sessions, hour \in Hours, len \in LocalDayLengths :
         CompleteSessionRead(h, hour, len)
    \/ \E h \in sessions : CompleteSessionWrite(h)
    \/ \E h \in sessions : CompleteSessionAppend(h)
    \/ \E h \in sessions : CompleteSessionFail(h)

SpecFresh == InitFresh /\ [][NextFresh]_vars

----------------------------------------------------------------------------
\* One practice run in which every backend call succeeds and the user keeps
\* going: whatever the screen lets the user do next (select, submit, next) is
\* eventually done, and every backend call eventually returns.
NextLive ==
    \/ \E a \in Choices : handleAnswerSelect(a)
    \/ submitAnswer /\ submits = <<>>
    \/ \E i \in DOMAIN submits : SubmitAnswerReturn(i, TRUE)
    \/ \E hour \in Hours : nextQuestion(hour) /\ sessions = {}
    \/ \E h \in sessions, hour \in Hours, len \in LocalDayLengths :
         CompleteSessionRead(h, hour, len)
    \/ \E h \in sessions : CompleteSessionWrite(h)
    \/ \E h \in sessions : CompleteSessionAppend(h)

FairLive ==
    /\ WF_vars(\E a \in Choices : handleAnswerSelect(a))
    /\ WF_vars(submitAnswer /\ submits = <<>>)
    /\ WF_vars(\E i \in DOMAIN submits : SubmitAnswerReturn(i, TRUE))
    /\ WF_vars(\E hour \in Hours : nextQuestion(hour) /\ sessions = {})
    /\ WF_vars(\E h \in sessions, hour \in Hours, len \in LocalDayLengths :
                 CompleteSessionRead(h, hour, len))
    /\ WF_vars(\E h \in sessions : CompleteSessionWrite(h))
    /\ WF_vars(\E h \in sessions : CompleteSessionAppend(h))

SpecLive == InitRun /\ [][NextLive]_vars /\ FairLive

----------------------------------------------------------------------------
\* The stats screen (src/app/stats.tsx): loadUserAnswers and
\* calculateCategoryStats.
MaxBank == 3
MaxAnswers == 3
MaxTotal == 40

\* The question bank: question i belongs to the category Category(i).
Category(i) == IF i % 2 = 1 THEN "People" ELSE "Process"
BankQuestion(i) == [id |-> i, category |-> Category(i)]

\* The increasing sequence of the elements of a set of numbers.
RECURSIVE SortedSeq(_)
SortedSeq(S) ==
    IF S = {} THEN <<>>
    ELSE LET least == CHOOSE x \in S : \A y \in S : x <= y
         IN  <<least>> \o SortedSeq(S \ {least})

\* What questions.list({ limit: 100 }) may return: any slice of the bank.
CatalogSlices == {[i \in DOMAIN SortedSeq(S) |-> BankQuestion(SortedSeq(S)[i])] : S \in SUBSET (1..MaxBank)}

\* What userAnswers.list may return: Answer Records (isCorrect stored as 1 or 0)
\* of questions of the bank, listed or not.
AnswerRecords == [questionId : 1..MaxBank, isCorrect : {0, 1}]
AnswerLists == UNION {[1..n -> AnswerRecords] : n \in 0..MaxAnswers}

\* total answers to question 1, the first `correct` of them correct.
UniformAnswers(correct, total) ==
    [i \in 1..total |-> [questionId |-> 1, isCorrect |-> IF i <= correct THEN 1 ELSE 0]]

\* questionMap.get(id): the question listed last under that id, if any
QuestionMapGet(listed, id) ==
    LET at == {i \in DOMAIN listed : listed[i].id = id}
    IN  IF at = {} THEN <<>>
        ELSE <<listed[CHOOSE i \in at : \A j \in at : j <= i]>>

\* categoryMap.get that never finds the category
CategoryMapGet_AlwaysFresh(map, category) == [total |-> 0, correct |-> 0]

\* categoryMap.get(category) || { total: 0, correct: 0 }
CategoryMapGet(map, category) ==
    LET at == {i \in DOMAIN map : map[i].category = category}
    IN  IF at = {} THEN [total |-> 0, correct |-> 0]
        ELSE LET e == map[CHOOSE i \in at : TRUE]
             IN  [total |-> e.total, correct |-> e.correct]

\* categoryMap.set(category, data): a Map keeps its keys in insertion order
CategoryMapSet(map, category, data) ==
    LET entry == [category |-> category, total |-> data.total, correct |-> data.correct]
    IN  IF \E i \in DOMAIN map : map[i].category = category
          THEN [i \in DOMAIN map |-> IF map[i].category = category THEN entry ELSE map[i]]
          ELSE Append(map, entry)

\* The body of answers.forEach(answer => ...) for one answer
TallyAnswer(answer, listed, map) ==
    LET question == QuestionMapGet(listed, answer.questionId)
    IN  IF question # <<>>
          THEN LET current == CategoryMapGet(map, question[1].category)
               IN  CategoryMapSet(map, question[1].category,
                       [total |-> current.total + 1,
                        correct |-> current.correct
                           + (IF answer.isCorrect > 0 THEN 1 ELSE 0)])
          ELSE map

\* answers.forEach(answer => ...) over the answers lo..hi in their order: the
\* first half, then the second half from the map the first half left (bound
\* as `half`, so that it is a value before the second half starts)
RECURSIVE Tally(_, _, _, _, _)
Tally(answers, listed, lo, hi, map) ==
    IF lo > hi THEN map
    ELSE IF lo = hi THEN TallyAnswer(answers[lo], listed, map)
    ELSE LET mid == (lo + hi) \div 2
         IN  CHOOSE result \in {Tally(answers, listed, mid + 1, hi, half) :
                                   half \in {Tally(answers, listed, lo, mid, map)}} : TRUE

\* .map(([category, data]) => ({ category, total, correct, accuracy }))
StatsOf(map) ==
    [i \in DOMAIN map |->
        [category |-> map[i].category,
         total |-> map[i].total,
         correct |-> map[i].correct,
         accuracy |-> Accuracy(map[i].correct, map[i].total)]]

\* Insert that puts an entry before the entries of the same total
Insert_BeforeEquals(e, sorted) ==
    LET before == {i \in DOMAIN sorted : sorted[i].total > e.total}
    IN  SubSeq(sorted, 1, Cardinality(before)) \o <<e>>
          \o SubSeq(sorted, Cardinality(before) + 1, Len(sorted))

\* One step of the stable sort by (a, b) => b.total - a.total: e goes behind
\* every entry whose total is not smaller
Insert(e, sorted) ==
    LET before == {i \in DOMAIN sorted : sorted[i].total >= e.total}
    IN  SubSeq(sorted, 1, Cardinality(before)) \o <<e>>
          \o SubSeq(sorted, Cardinality(before) + 1, Len(sorted))

\* .sort((a, b) => b.total - a.total): Array.prototype.sort is stable
RECURSIVE SortByTotal(_)
SortByTotal(entries) ==
    IF entries = <<>> THEN <<>>
    ELSE Insert(entries[Len(entries)], SortByTotal(SubSeq(entries, 1, Len(entries) - 1)))

\* The value calculateCategoryStats hands to setCategoryStats
CategoryStatsOf(answers, listed) ==
    SortByTotal(StatsOf(Tally(answers, listed, 1, Len(answers), <<>>)))

practiceVars == <<now, dbVars, screenVars, loads, submits, sessions, countVars,
                  lastWrite, lastFailure>>

\* loadUserAnswers up to the await in calculateCategoryStats: the answers are
\* listed, setUserAnswers(answers), questions.list is issued
loadUserAnswers(answers) ==
    /\ statsPc = "idle"
    /\ statsAnswers' = answers
    /\ statsPc' = "questions"
    /\ UNCHANGED <<statsQuestions, categoryStats, practiceVars>>

\* calculateCategoryStats after its await: questions.list returned `listed`
CalculateCategoryStatsReturn(listed) ==
    /\ statsPc = "questions"
    /\ statsQuestions' = listed
    /\ categoryStats' = CategoryStatsOf(statsAnswers, listed)
    /\ statsPc' = "done"
    /\ UNCHANGED <<statsAnswers, practiceVars>>

\* calculateCategoryStats after its await: questions.list failed (catch:
\* console.error only)
CalculateCategoryStatsFail ==
    /\ statsPc = "questions"
    /\ statsPc' = "failed"
    /\ lastFailure' = Caught("calculateCategoryStats", TRUE, FALSE)
    /\ UNCHANGED <<statsAnswers, statsQuestions, categoryStats, now, dbVars, screenVars,
                   loads, submits, sessions, countVars, lastWrite>>

\* The stats screen of a signed-in user, from its construction.
InitStats == InitRun

NextStats ==
    \/ \E answers \in AnswerLists : loadUserAnswers(answers)
    \/ \E listed \in CatalogSlices : CalculateCategoryStatsReturn(listed)
    \/ CalculateCategoryStatsFail

SpecStats == InitStats /\ [][NextStats]_vars

\* The stats screen given up to MaxTotal answers to one question.
NextAccuracy ==
    \/ \E total \in 0..MaxTotal, correct \in 0..MaxTotal :
         correct <= total /\ loadUserAnswers(UniformAnswers(correct, total))
    \/ \E listed \in CatalogSlices : CalculateCategoryStatsReturn(listed)

SpecAccuracy == InitStats /\ [][NextAccuracy]_vars

----------------------------------------------------------------------------
\* Properties.

\* The latest write to users: what completeSession had read, what it wrote.
WroteUpdate == lastWrite # <<>> /\ Len(lastWrite[1].existingUsers) > 0
WroteCreate == lastWrite # <<>> /\ Len(lastWrite[1].existingUsers) = 0
Prior == lastWrite[1].existingUsers[1]
Written == lastWrite[1].written
WriteDay == lastWrite[1].today

\* C1: every stored User Progress Record has correctAnswers <= totalQuestionsAnswered.
C1_CorrectWithinTotal ==
    \A i \in DOMAIN dbUsers :
        dbUsers[i].correctAnswers <= dbUsers[i].totalQuestionsAnswered

\* The questions of a run that were answered, and those answered correctly.
Outcomes(answered) == {answered[i].questionId : i \in DOMAIN answered}
CorrectOutcomes(answered) ==
    {answered[i].questionId : i \in {j \in DOMAIN answered : answered[j].isCorrect}}

\* C2: the tally a completeSession call persists has correctCount equal to the
\* number of questions of the run answered correctly, each counted once, and
\* totalCount equal to the number of outcomes.
C2_TallyCountsOutcomes ==
    \A h \in sessions :
        /\ h.correctCount = Cardinality(CorrectOutcomes(h.answered))
        /\ h.totalQuestions = Cardinality(Outcomes(h.answered))

\* C3: every record completeSession writes has longestStreak >= currentStreak,
\* longestStreak being the larger of the previous longestStreak (none on a
\* create) and the new currentStreak.
C3_LongestIsMax ==
    lastWrite # <<>> =>
        LET previous == IF WroteUpdate THEN Prior.longestStreak ELSE 0
        IN  /\ Written.longestStreak >= Written.currentStreak
            /\ \/ previous >= Written.currentStreak /\ Written.longestStreak = previous
               \/ previous < Written.currentStreak
                    /\ Written.longestStreak = Written.currentStreak

C3_Witness ==
    /\ WroteUpdate
    /\ Prior.longestStreak < Prior.currentStreak
    /\ Written.longestStreak = Written.currentStreak
    /\ Written.currentStreak = Prior.currentStreak + 1
    /\ dbUsers = <<Written>>

\* The days on which a session was completed, and the number of consecutive
\* such days that end at day d.
StudiedDays == {dbStudySessions[i].sessionDate : i \in DOMAIN dbStudySessions}
RECURSIVE ConsecutiveDaysEndingAt(_, _)
ConsecutiveDaysEndingAt(days, d) ==
    IF d \in days THEN 1 + ConsecutiveDaysEndingAt(days, d - 1) ELSE 0
MostRecent(days) == CHOOSE d \in days : \A e \in days : e <= d

\* C4: with no failed backend call and a clock that never goes back, once every
\* completeSession has finished the stored currentStreak is the number of
\* consecutive calendar days, ending at the most recent study date, on each of
\* which a session was completed.
C4_StreakCountsConsecutiveDays ==
    (sessions = {} /\ dbUsers # <<>> /\ StudiedDays # {}) =>
        dbUsers[1].currentStreak =
            ConsecutiveDaysEndingAt(StudiedDays, MostRecent(StudiedDays))

\* C5: when the stored lastStudyDate is today minus one day, completeSession
\* writes currentStreak = previous currentStreak + 1 and lastStudyDate = today.
C5_YesterdayIncrements ==
    (WroteUpdate /\ Prior.lastStudyDate = WriteDay - 1) =>
        /\ Written.currentStreak = Prior.currentStreak + 1
        /\ Written.lastStudyDate = WriteDay

C7_GapResets ==
    (WroteUpdate /\ (Prior.lastStudyDate = EmptyDate
                     \/ Prior.lastStudyDate < WriteDay - 1)) =>
        /\ Written.currentStreak = 1
        /\ Written.longestStreak = IF Prior.longestStreak >= 1
                                     THEN Prior.longestStreak ELSE 1

\* C8: when the stored lastStudyDate is neither today nor yesterday (neither
\* the day before today nor the date completeSession takes for yesterday), a
\* date later than today included, the record completeSession has written
\* has currentStreak = 1.
C8_OtherDateResets ==
    \A h \in sessions :
        (/\ h.pc = "session"
         /\ Len(h.existingUsers) > 0
         /\ h.existingUsers[1].lastStudyDate # h.today
         /\ h.existingUsers[1].lastStudyDate # h.today - 1
         /\ h.existingUsers[1].lastStudyDate # h.yesterdayStr) =>
            h.fields[1].currentStreak = 1

\* C9: when the user has no record, completeSession creates one with
\* currentStreak 1, longestStreak 1, lastStudyDate today and the session's
\* counts as totals.
C9_FirstSessionCreates ==
    WroteCreate =>
        /\ Written.currentStreak = 1
        /\ Written.longestStreak = 1
        /\ Written.lastStudyDate = WriteDay
        /\ Written.totalQuestionsAnswered = lastWrite[1].totalQuestions
        /\ Written.correctAnswers = lastWrite[1].correctCount

C9_Witness ==
    /\ WroteCreate
    /\ dbUsers = <<Written>>
    /\ Written.totalQuestionsAnswered = 2
    /\ Written.correctAnswers = 1

\* C10: on every update, whichever streak branch fires, the written totals are
\* the previous totals plus the session's counts.
C10_TotalsAccumulate ==
    WroteUpdate =>
        /\ Written.totalQuestionsAnswered =
             Prior.totalQuestionsAnswered + lastWrite[1].totalQuestions
        /\ Written.correctAnswers = Prior.correctAnswers + lastWrite[1].correctCount

\* An update on a record dated after today, which takes none of the branches.
C10_Witness ==
    /\ WroteUpdate
    /\ Prior.lastStudyDate > WriteDay
    /\ Prior.totalQuestionsAnswered > 0
    /\ lastWrite[1].correctCount > 0
    /\ Written.totalQuestionsAnswered > Prior.totalQuestionsAnswered
    /\ Written.correctAnswers > Prior.correctAnswers
    /\ dbUsers = <<Written>>

\* C11: every write to the user's record, also one of several completeSession
\* handlers that overlap, leaves the stored totalQuestionsAnswered and the
\* stored correctAnswers no smaller than they were just before the write.
C11_TotalsNeverDecrease ==
    [][\A i \in DOMAIN dbUsers :
          /\ i \in DOMAIN dbUsers'
          /\ dbUsers'[i].totalQuestionsAnswered >= dbUsers[i].totalQuestionsAnswered
          /\ dbUsers'[i].correctAnswers >= dbUsers[i].correctAnswers]_vars

\* The completeSession handlers that have issued users.create.
IssuedCreate == {h \in sessions : h.pc \in {"write", "session"} /\ h.existingUsers = <<>>}

\* C12: users.create is issued at most once for the user, also when handlers
\* overlap: no two handlers have issued it, none has issued it once the record
\* is stored by another, and the store never holds two records of the user.
C12_CreateIssuedOnce ==
    /\ Cardinality(IssuedCreate) <= 1
    /\ \A h \in IssuedCreate : h.pc = "write" => dbUsers = <<>>
    /\ Len(dbUsers) <= 1

\* C13: the one practice run of the screen (no restart; the store starts
\* without study sessions) stores at most one Study Session Record, and exactly
\* one once sessionComplete is true, however often Complete Session is pressed.
C13_OneSessionPerRun ==
    /\ Len(dbStudySessions) <= 1
    /\ sessionComplete => Len(dbStudySessions) = 1

\* What one completeSession handler h does in a step: its successor, the totals
\* it read, and the Study Session Record that matches its users write.
After(h) == {g \in sessions' : g.id = h.id}
ReadTotals(h) ==
    IF Len(h.existingUsers) > 0
      THEN h.existingUsers[1]
      ELSE [totalQuestionsAnswered |-> 0, correctAnswers |-> 0]
SessionOfWrite(h) ==
    [sessionDate |-> h.fields[1].lastStudyDate,
     questionsAnswered |->
         h.fields[1].totalQuestionsAnswered - ReadTotals(h).totalQuestionsAnswered,
     correctAnswers |-> h.fields[1].correctAnswers - ReadTotals(h).correctAnswers]

\* C14: every completeSession invocation makes its backend calls one after the
\* other: the users.list read, then one users write (update if a record was
\* read, otherwise create), then one studySessions.create dated today with the
\* counts that were added to the totals; a failed call ends the invocation
\* without a further call, so no study session follows a failed users write.
C14_CallsInOrder ==
    [][/\ \A h \in sessions :
            \/ After(h) = {h}
            \/ /\ h.pc = "list"
               /\ \E g \in After(h) : g.pc = "write" /\ g.existingUsers = UsersList(dbUsers)
               /\ UNCHANGED dbVars
            \/ /\ h.pc = "write"
               /\ \E g \in After(h) : g.pc = "session" /\ g.fields = h.fields
               /\ h.fields[1].lastStudyDate = h.today
               /\ IF Len(h.existingUsers) > 0
                    THEN /\ Len(dbUsers') = Len(dbUsers)
                         /\ \A i \in DOMAIN dbUsers' : dbUsers'[i] = h.fields[1]
                    ELSE dbUsers' = Append(dbUsers, h.fields[1])
               /\ UNCHANGED <<dbStudySessions, dbUserAnswers>>
            \/ /\ h.pc = "session"
               /\ After(h) = {}
               /\ dbStudySessions' = Append(dbStudySessions, SessionOfWrite(h))
               /\ UNCHANGED <<dbUsers, dbUserAnswers>>
            \/ /\ After(h) = {}
               /\ UNCHANGED dbVars
       /\ dbUsers' # dbUsers =>
            \E h \in sessions : h.pc = "write" /\ After(h) # {h}
       /\ dbStudySessions' # dbStudySessions =>
            \E h \in sessions : h.pc = "session" /\ After(h) = {}]_vars

\* One invocation whose calls all succeeded has updated the record it read and
\* stored its study session.
C14_Witness ==
    /\ nCompleted = 1
    /\ sessions = {}
    /\ lastFailure = <<>>
    /\ sessionComplete
    /\ WroteUpdate
    /\ dbUsers = <<Written>>
    /\ dbStudySessions =
         <<[sessionDate |-> WriteDay,
            questionsAnswered |->
                Written.totalQuestionsAnswered - Prior.totalQuestionsAnswered,
            correctAnswers |-> Written.correctAnswers - Prior.correctAnswers]>>

\* Two handlers have both read the same stored record and both written, the
\* write of h2 being the latest write to users.
BothReadThenWrote(h1, h2) ==
    /\ h1.id # h2.id
    /\ h1.pc = "session" /\ h2.pc = "session"
    /\ Len(h1.existingUsers) > 0
    /\ h1.existingUsers = h2.existingUsers
    /\ lastWrite # <<>>
    /\ lastWrite[1].existingUsers = h2.existingUsers
    /\ lastWrite[1].written = h2.fields[1]

\* C15: when two completeSession handlers both read the User Progress Record
\* before either writes it, both writes are applied and the stored totals are
\* the totals read plus the counts of one session only, not of both.
C15_LostUpdate ==
    \A h1, h2 \in sessions :
        BothReadThenWrote(h1, h2) =>
            /\ \A i \in DOMAIN dbUsers : dbUsers[i] = h2.fields[1]
            /\ dbUsers[1].totalQuestionsAnswered =
                 h2.existingUsers[1].totalQuestionsAnswered + h2.totalQuestions
            /\ dbUsers[1].correctAnswers =
                 h2.existingUsers[1].correctAnswers + h2.correctCount
            /\ dbUsers[1].totalQuestionsAnswered <
                 h2.existingUsers[1].totalQuestionsAnswered
                   + h1.totalQuestions + h2.totalQuestions

C15_Witness ==
    \E h1, h2 \in sessions :
        /\ BothReadThenWrote(h1, h2)
        /\ h1.totalQuestions > 0
        /\ dbUsers[1].totalQuestionsAnswered =
             h1.existingUsers[1].totalQuestionsAnswered + h1.totalQuestions

\* The Answer Records and the local answers of the question with id q.
RecordsOf(q) == {i \in DOMAIN dbUserAnswers : dbUserAnswers[i].questionId = q}
LocalAnswersOf(q) == {i \in DOMAIN userAnswers : userAnswers[i].questionId = q}

\* C16: for each question of the run at most one Answer Record is created and
\* at most one entry is appended to the local answer list, also when Submit
\* Answer is pressed again while the first submitAnswer awaits the backend.
C16_OneAnswerPerQuestion ==
    \A i \in DOMAIN questions :
        /\ Cardinality(RecordsOf(questions[i].id)) <= 1
        /\ Cardinality(LocalAnswersOf(questions[i].id)) <= 1

\* C17 (as claimed): no Answer Record of the run is in the store before the
\* run's completeSession is invoked.
C17_NoAnswerBeforeCompletion ==
    nCompleted = 0 => dbUserAnswers = <<>>

\* C17 (amended): Answer Records are created at answer-submission time: the
\* store of Answer Records changes only when the userAnswers.create of a
\* submitAnswer call is applied, which appends that call's record and touches
\* neither the completeSession handlers nor the other collections; and a
\* submitAnswer call ends either with its record stored or with the failure
\* caught.
C17_AnswersStoredOnSubmit ==
    [][/\ dbUserAnswers' # dbUserAnswers =>
            /\ \E i \in DOMAIN submits :
                 /\ dbUserAnswers' = Append(dbUserAnswers, submits[i])
                 /\ submits' = RemoveAt(submits, i)
            /\ UNCHANGED <<sessions, nCompleted, dbUsers, dbStudySessions>>
       /\ Len(submits') < Len(submits) =>
            \/ Len(dbUserAnswers') = Len(dbUserAnswers) + 1
            \/ /\ dbUserAnswers' = dbUserAnswers
               /\ lastFailure' = Caught("submitAnswer", TRUE, FALSE)]_vars

\* A run that has not reached its last question, abandoned here, leaves the
\* Answer Record of its first answer.
C17_Witness ==
    /\ nCompleted = 0
    /\ sessions = {}
    /\ submits = <<>>
    /\ currentQuestionIndex < Len(questions) - 1
    /\ dbUserAnswers # <<>>
    /\ dbUserAnswers = userAnswers

\* s is a prefix of t: t keeps every record of s, in place and unchanged.
IsPrefix(s, t) == Len(s) <= Len(t) /\ \A i \in DOMAIN s : t[i] = s[i]

\* C18: no action updates or deletes an Answer Record or a Study Session
\* Record: in every step each of the two collections keeps all its records
\* unchanged and grows, if at all, by one created record.
C18_RecordsAppendOnly ==
    [][/\ IsPrefix(dbUserAnswers, dbUserAnswers')
       /\ Len(dbUserAnswers') <= Len(dbUserAnswers) + 1
       /\ IsPrefix(dbStudySessions, dbStudySessions')
       /\ Len(dbStudySessions') <= Len(dbStudySessions) + 1]_vars

\* A completed run of two questions: two Answer Records, then the Study
\* Session Record, all still in the store.
C18_Witness ==
    /\ sessionComplete
    /\ Len(dbUserAnswers) = 2
    /\ dbUserAnswers[1] # dbUserAnswers[2]
    /\ dbUserAnswers = userAnswers
    /\ Len(dbStudySessions) = 1

\* A completeSession that retries, on the day of the latest users write, after
\* the attempt that made that write failed: it has read the record and
\* computed its own write.
RetriesSameDay(h) ==
    /\ h.pc = "write"
    /\ lastWrite # <<>>
    /\ lastFailure # <<>>
    /\ h.today = WriteDay

\* C19: a users write stays stored when the study-session append after it
\* fails, and the retry of completeSession on the same day reads that record
\* and writes the currentStreak and longestStreak the first attempt stored
\* (those of a failure-free completion).
C19_RetryKeepsStreak ==
    /\ lastWrite # <<>> => dbUsers = <<Written>>
    /\ \A h \in sessions :
         RetriesSameDay(h) =>
            /\ h.existingUsers = <<Written>>
            /\ h.fields[1].currentStreak = Written.currentStreak
            /\ h.fields[1].longestStreak = Written.longestStreak

\* The first attempt raised the streak of a record last studied the day
\* before and failed; the retry keeps the raised streak.
C19_Witness ==
    \E h \in sessions :
        /\ RetriesSameDay(h)
        /\ dbStudySessions = <<>>
        /\ WroteUpdate
        /\ Written.currentStreak = Prior.currentStreak + 1
        /\ Written.longestStreak > Prior.longestStreak
        /\ h.fields[1].currentStreak = Written.currentStreak
        /\ h.fields[1].totalQuestionsAnswered > Written.totalQuestionsAnswered

\* C20: the failure of a backend call made by a screen action is caught in
\* that action, logged and shown to the user as a notice.
C20_FailuresSurfaced ==
    lastFailure # <<>> =>
        /\ lastFailure[1].logged
        /\ lastFailure[1].alerted

----------------------------------------------------------------------------
\* The stats screen.

\* The categories of the bank, and the answers of the latest calculation that
\* are attributed to category c: those whose question is in the listed slice
\* with that category.
Categories == {Category(i) : i \in 1..MaxBank}
Attributed(c) ==
    {i \in DOMAIN statsAnswers :
        \E k \in DOMAIN statsQuestions :
            /\ statsQuestions[k].id = statsAnswers[i].questionId
            /\ statsQuestions[k].category = c}
EntriesOf(c) == {i \in DOMAIN categoryStats : categoryStats[i].category = c}
RECURSIVE SumOfTotals(_)
SumOfTotals(stats) ==
    IF stats = <<>> THEN 0 ELSE stats[1].total + SumOfTotals(Tail(stats))
EveryQuestionListed ==
    \A i \in DOMAIN statsAnswers :
        \E k \in DOMAIN statsQuestions : statsQuestions[k].id = statsAnswers[i].questionId

\* C21: calculateCategoryStats outputs, for each category with answers
\* attributed to it, exactly one entry, whose total is the number of input
\* answers whose question is in the catalog slice with that category and whose
\* correct is the number of those with isCorrect > 0 (a category with none has
\* no entry); answers of absent questions are skipped, so the totals sum to at
\* most the number of input answers, and to exactly that number when every
\* referenced question is in the slice.
C21_CategoryTotals ==
    statsPc = "done" =>
        /\ \A i \in DOMAIN categoryStats : categoryStats[i].category \in Categories
        /\ \A c \in Categories :
             /\ Cardinality(EntriesOf(c)) = IF Attributed(c) = {} THEN 0 ELSE 1
             /\ \A i \in EntriesOf(c) :
                  /\ categoryStats[i].total = Cardinality(Attributed(c))
                  /\ categoryStats[i].correct =
                       Cardinality({j \in Attributed(c) : statsAnswers[j].isCorrect > 0})
        /\ SumOfTotals(categoryStats) <= Len(statsAnswers)
        /\ EveryQuestionListed => SumOfTotals(categoryStats) = Len(statsAnswers)

\* Three answers were aggregated: two of one category, one of them correct,
\* and one of a question that the slice does not list.
C21_Witness ==
    /\ statsPc = "done"
    /\ Len(statsAnswers) = 3
    /\ ~EveryQuestionListed
    /\ Len(categoryStats) = 1
    /\ categoryStats[1].total = 2
    /\ categoryStats[1].correct = 1

\* The position of the first input answer attributed to category c.
FirstAppearance(c) == CHOOSE i \in Attributed(c) : \A j \in Attributed(c) : i <= j

\* C22: the sequence calculateCategoryStats produces is ordered by total
\* descending, and entries of equal total keep the order in which their
\* categories first appear in the input answers.
C22_SortedStable ==
    statsPc = "done" =>
        \A i, j \in DOMAIN categoryStats :
            i < j =>
                /\ categoryStats[i].total >= categoryStats[j].total
                /\ categoryStats[i].total = categoryStats[j].total =>
                     FirstAppearance(categoryStats[i].category)
                        < FirstAppearance(categoryStats[j].category)

\* Two categories tie and a third answer is skipped; the category that the
\* answers name first comes first.
C22_Witness ==
    /\ statsPc = "done"
    /\ Len(statsAnswers) = 3
    /\ Len(categoryStats) = 2
    /\ categoryStats[1].total = categoryStats[2].total
    /\ categoryStats[1].category = "Process"
    /\ FirstAppearance("Process") < FirstAppearance("People")

\* C23: every category entry with total >= 1 has the accuracy that rounds
\* 100 * correct / total half up to an integer, within 0..100 (total = 0 gives 0).
C23_AccuracyRoundsHalfUp ==
    statsPc = "done" =>
        \A i \in DOMAIN categoryStats :
            /\ categoryStats[i].accuracy \in 0..100
            /\ categoryStats[i].accuracy
                 = Accuracy_ExactHalfUp(categoryStats[i].correct, categoryStats[i].total)

----------------------------------------------------------------------------
\* The practice screen with reloads.

\* What the Session Complete view shows for the current state.
SessionPercentage == Percentage(DisplayedCorrect(userAnswers), TotalQuestions(questions))

\* C24: no session has a question count of 0 and the percentage of the Session
\* Complete view never divides by zero: whenever the session is complete the
\* question list, whose length is the divisor, is non-empty, and every tally
\* completeSession takes and every Study Session Record it stores counts at
\* least one question.
C24_NoZeroDivisor ==
    /\ sessionComplete => TotalQuestions(questions) > 0
    /\ \A h \in sessions : h.totalQuestions >= 1
    /\ \A i \in DOMAIN dbStudySessions : dbStudySessions[i].questionsAnswered >= 1

\* The Session Complete view of a two-question run with one correct answer,
\* after the auth-state callback has re-run loadQuestions and every load has
\* returned.
C24_Witness ==
    /\ CompleteView
    /\ nAuth = MaxReloads
    /\ loads = 0
    /\ Len(questions) = 2
    /\ DisplayedCorrect(userAnswers) = 1
    /\ SessionPercentage = 50

\* C28: whenever the question list is non-empty, currentQuestionIndex is
\* within 0..questions.length - 1, after any sequence of nextQuestion,
\* restartPractice and reloads of the questions.
C28_IndexInRange ==
    Len(questions) > 0 => currentQuestionIndex \in 0..(Len(questions) - 1)

----------------------------------------------------------------------------
\* One practice run.

\* C25: once submitAnswer has been invoked for the current question the
\* selection cannot change until nextQuestion: the answer recorded for the
\* current question is the one that is still selected.
C25_SelectionFrozen ==
    \A i \in DOMAIN userAnswers :
        userAnswers[i].questionId = CurrentQuestion.id =>
            userAnswers[i].selectedAnswer = selectedAnswer

\* C26: for every completed run the correct count the Session Complete view
\* shows equals the correctAnswers completeSession stored in the run's Study
\* Session Record.
C26_DisplayedIsPersisted ==
    sessionComplete =>
        /\ dbStudySessions # <<>>
        /\ DisplayedCorrect(userAnswers) = dbStudySessions[Len(dbStudySessions)].correctAnswers

\* The sum of a field over the Study Session Records.
RECURSIVE SumOver(_, _)
SumOver(records, field) ==
    IF records = <<>> THEN 0 ELSE records[1][field] + SumOver(Tail(records), field)

\* C27: whenever no completeSession handler is in flight, the stored
\* totalQuestionsAnswered is the sum of questionsAnswered over the Study
\* Session Records and the stored correctAnswers is the sum of their
\* correctAnswers, also after a backend call failed.
C27_TotalsMatchSessions ==
    sessions = {} =>
        /\ dbUsers = <<>> => dbStudySessions = <<>>
        /\ \A i \in DOMAIN dbUsers :
             /\ dbUsers[i].totalQuestionsAnswered = SumOver(dbStudySessions, "questionsAnswered")
             /\ dbUsers[i].correctAnswers = SumOver(dbStudySessions, "correctAnswers")

----------------------------------------------------------------------------
\* A first-time user.

\* C29: starting from no stored record, every User Progress Record that
\* completeSession writes, and so every stored one, has currentStreak >= 1 and
\* longestStreak >= 1, on whatever dates the completions happen.
C29_StreaksAtLeastOne ==
    /\ lastWrite # <<>> =>
         /\ Written.currentStreak >= 1
         /\ Written.longestStreak >= 1
    /\ \A h \in sessions :
         h.fields # <<>> => h.fields[1].currentStreak >= 1 /\ h.fields[1].longestStreak >= 1
    /\ \A i \in DOMAIN dbUsers :
         dbUsers[i].currentStreak >= 1 /\ dbUsers[i].longestStreak >= 1

\* The record created by the first completion was updated by a completion
\* more than a day later: the streak starts again at 1.
C29_Witness ==
    /\ WroteUpdate
    /\ WriteDay > Prior.lastStudyDate + 1
    /\ Prior.currentStreak = 1
    /\ Written.currentStreak = 1
    /\ Written.longestStreak = 1
    /\ dbUsers = <<Written>>

\* C30: with n >= 1 questions loaded and every backend call succeeding, a user
\* who keeps selecting, submitting and pressing next eventually reaches
\* sessionComplete, after exactly n submissions; currentQuestionIndex changes
\* only by nextQuestion adding 1, and each advance clears the selection and
\* hides the explanation.
C30_RunTerminates ==
    /\ <>sessionComplete
    /\ [](sessionComplete =>
            /\ Len(userAnswers) = Len(questions)
            /\ Len(dbUserAnswers) = Len(questions)
            /\ currentQuestionIndex = Len(questions) - 1)
    /\ [][currentQuestionIndex' # currentQuestionIndex =>
            /\ showExplanation
            /\ currentQuestionIndex' = currentQuestionIndex + 1
            /\ selectedAnswer' = NoAnswer
            /\ ~showExplanation']_vars

\* The run of NumQuestions questions is complete: every question was
\* submitted once, the last one is still displayed behind the Session Complete
\* view, and the Study Session Record is stored.
C30_Witness ==
    /\ sessionComplete
    /\ Len(questions) = NumQuestions
    /\ Len(userAnswers) = NumQuestions
    /\ currentQuestionIndex = NumQuestions - 1
    /\ Len(dbStudySessions) = 1
====
